---------------------------- MODULE Spec2Model ----------------------------
(***************************************************************************)
(* A model of the MicroPython asymmetric-cryptography toolkit:             *)
(*   src/RSA/RSA.py          MicroRSA      (gcd, modinv, Miller-Rabin,     *)
(*                                          key generation, sign, verify)  *)
(*   src/ed25519/ed25519.py  MicroEd25519  (point arithmetic, scalar_mult, *)
(*                                          key generation, sign, verify)  *)
(*   src/cbor/cbor.py        the CBOR codec (dumps / loads)                *)
(*                                                                         *)
(* Python integers are unbounded; TLC's are 32-bit.  The arithmetic below  *)
(* is the source's arithmetic, written so that no intermediate value       *)
(* leaves TLC's range (MulMod, FMul), and the numbers it is run on are     *)
(* small: RSA moduli of about 16 bits instead of 384, and for the curve    *)
(* the field prime 2^15 - 19 in place of 2^255 - 19 (both are 5 mod 8, so  *)
(* the square-root branch of point_decompress is the same one).  Hashes    *)
(* and random sources are inputs: every value they can return is a         *)
(* nondeterministic choice from a bounded set.                             *)
(***************************************************************************)
EXTENDS Integers, Sequences, FiniteSets, TLC

VARIABLES
    \* modinv(a, m): one call
    mi_pc, mi_a, mi_m, mi_res,
    \* is_prime(n): one call, a step per Miller-Rabin round
    mr_pc, mr_n, mr_certainty, mr_round, mr_a,
    \* generate_prime(): one call; the loop index, the candidate under test, the
    \* Miller-Rabin rounds it has passed, the milliseconds since start_time
    pg_pc, pg_attempt, pg_candidate, pg_round, pg_elapsed,
    \* generate_keys(), then sign and verify of one message
    rsa_pc, rsa_stage, rsa_p, rsa_q, rsa_candidate, rsa_round, rsa_retried,
    rsa_d, rsa_m, rsa_sig, rsa_ok,
    \* the curve: a point (x, y), its compression, the decompression of that, and a
    \* scalar multiple of it
    cv_pc, cv_x, cv_y, cv_k, cv_c, cv_pt, cv_res,
    \* MicroEd25519: generate_keys, sign, verify of one message
    ed_pc, ed_secret, ed_public, ed_msg, ed_sig, ed_hin, ed_h, ed_res,
    \* cbor: a value x, dumps(x), and what loads made of it and where it stopped
    cb_pc, cb_x, cb_bytes, cb_out, cb_pos

miVars == <<mi_pc, mi_a, mi_m, mi_res>>
mrVars == <<mr_pc, mr_n, mr_certainty, mr_round, mr_a>>
pgVars == <<pg_pc, pg_attempt, pg_candidate, pg_round, pg_elapsed>>
rsaVars == <<rsa_pc, rsa_stage, rsa_p, rsa_q, rsa_candidate, rsa_round, rsa_retried,
             rsa_d, rsa_m, rsa_sig, rsa_ok>>
cvVars == <<cv_pc, cv_x, cv_y, cv_k, cv_c, cv_pt, cv_res>>
edVars == <<ed_pc, ed_secret, ed_public, ed_msg, ed_sig, ed_hin, ed_h, ed_res>>
cbVars == <<cb_pc, cb_x, cb_bytes, cb_out, cb_pos>>
vars == <<miVars, mrVars, pgVars, rsaVars, cvVars, edVars, cbVars>>

\* what the actions of one component leave alone
MiFrame == UNCHANGED <<mrVars, pgVars, rsaVars, cvVars, edVars, cbVars>>
MrFrame == UNCHANGED <<miVars, pgVars, rsaVars, cvVars, edVars, cbVars>>
PgFrame == UNCHANGED <<miVars, mrVars, rsaVars, cvVars, edVars, cbVars>>
RsaFrame == UNCHANGED <<miVars, mrVars, pgVars, cvVars, edVars, cbVars>>
CvFrame == UNCHANGED <<miVars, mrVars, pgVars, rsaVars, edVars, cbVars>>
EdFrame == UNCHANGED <<miVars, mrVars, pgVars, rsaVars, cvVars, cbVars>>
CbFrame == UNCHANGED <<miVars, mrVars, pgVars, rsaVars, cvVars, edVars>>

---------------------------------------------------------------------------
(* Bounds of the model *)

\* modinv is called with a in -MaxA..MaxA and m in 1..MaxM
MaxA == 12
MaxM == 12
\* urandom.getrandbits(16) returns a value in 0..MaxRandMR when is_prime is run on
\* its own, and in 0..MaxRand16 inside generate_prime (the source: 0..65535)
MaxRandMR == 255
MaxRand16 == 15
\* is_prime is run with prime_certainty in 1..MaxCertainty
MaxCertainty == 3

---------------------------------------------------------------------------
(* Python integer arithmetic *)

\* Python's b // a (floor division), a # 0
PyFloorDiv(b, a) == IF a > 0 THEN b \div a ELSE (0 - b) \div (0 - a)

\* Python's b % a: the result has the sign of the divisor a
PyMod(b, a) == b - a * PyFloorDiv(b, a)

\* (a + b) mod n for 0 <= a, b < n, without leaving the 32-bit range
AddMod(a, b, n) == IF a >= n - b THEN a - (n - b) ELSE a + b

\* (a * b) mod n for 0 <= a, b < n: what Python computes on unbounded integers
RECURSIVE MulMod(_, _, _)
MulMod(a, b, n) ==
    IF b = 0 THEN 0
    ELSE IF a <= 46340 /\ b <= 46340 THEN (a * b) % n
    ELSE LET h == MulMod(a, b \div 2, n)
         IN  IF h = 0 THEN (IF b % 2 = 1 THEN a ELSE 0)
             ELSE LET dbl == AddMod(h, h, n)
                  IN  IF b % 2 = 1 THEN AddMod(dbl, a, n) ELSE dbl

\* Python's built-in pow(b, x, n), x >= 0, n >= 1, by repeated squaring
RECURSIVE ModPow(_, _, _)
ModPow(b, x, n) ==
    IF x = 0 THEN 1 % n
    ELSE LET h == ModPow(b, x \div 2, n)
         IN  IF h = 0 THEN 0
             ELSE LET sq == MulMod(h, h, n)
                  IN  IF sq = 0 THEN 0
                      ELSE IF x % 2 = 1 THEN MulMod(sq, b % n, n) ELSE sq

\* a | b on non-negative integers
RECURSIVE BitOr(_, _)
BitOr(a, b) ==
    IF a = 0 THEN b
    ELSE IF b = 0 THEN a
    ELSE 2 * BitOr(a \div 2, b \div 2) + (IF a % 2 = 1 \/ b % 2 = 1 THEN 1 ELSE 0)

---------------------------------------------------------------------------
(* MicroRSA: gcd, extended_gcd, modinv *)

\* MicroRSA.gcd
RECURSIVE gcd(_, _)
gcd(a, b) == IF b = 0 THEN a ELSE gcd(b, PyMod(a, b))

\* MicroRSA.extended_gcd: <<g, x, y>>
RECURSIVE extended_gcd(_, _)
extended_gcd(a, b) ==
    IF a = 0 THEN <<b, 0, 1>>
    ELSE LET r == extended_gcd(PyMod(b, a), a)
         IN  <<r[1], r[3] - PyFloorDiv(b, a) * r[2], r[2]>>

\* A Python value that is None or an integer
None == [none |-> TRUE, val |-> 0]
Some(v) == [none |-> FALSE, val |-> v]

\* MicroRSA.modinv
modinv(a, m) ==
    LET r == extended_gcd(a, m)
    IN  IF r[1] # 1 THEN None ELSE Some(PyMod(r[2], m))

MiInit ==
    /\ mi_pc = "call"
    /\ mi_a \in (0 - MaxA)..MaxA
    /\ mi_m \in 1..MaxM
    /\ mi_res = None

MiIdle ==
    /\ mi_pc = "idle"
    /\ mi_a = 0
    /\ mi_m = 1
    /\ mi_res = None

\* one call of modinv(a, m)
ModInvCall ==
    /\ mi_pc = "call"
    /\ mi_res' = modinv(mi_a, mi_m)
    /\ mi_pc' = "done"
    /\ UNCHANGED <<mi_a, mi_m>>
    /\ MiFrame

---------------------------------------------------------------------------
(* MicroRSA.is_prime *)

\* the odd part d of n - 1 and the exponent s with n - 1 = d * 2^s (lines 26-30)
RECURSIVE OddPart(_)
OddPart(d) == IF d % 2 = 0 THEN OddPart(d \div 2) ELSE d

RECURSIVE TwoExp(_)
TwoExp(d) == IF d % 2 = 0 THEN 1 + TwoExp(d \div 2) ELSE 0

\* the base drawn from a 16-bit random value r (line 33)
MRBase(n, r) == (r % (n - 4)) + 2

\* the inner loop (lines 37-42): k more squarings of x; TRUE when one lands on n - 1
RECURSIVE MRSquares(_, _, _)
MRSquares(x, k, n) ==
    IF k = 0 THEN FALSE
    ELSE LET y == MulMod(x, x, n)
         IN  IF y = n - 1 THEN TRUE ELSE MRSquares(y, k - 1, n)

\* a round that forgets to accept x = n - 1 before squaring
MRRound_noMinusOne(n, a) ==
    LET d == OddPart(n - 1)
        s == TwoExp(n - 1)
        x == ModPow(a, d, n)
    IN  IF x = 1 THEN TRUE ELSE MRSquares(x, s - 1, n)

\* one round with base a (lines 34-42): TRUE when the round does not disprove n
MRRound(n, a) ==
    LET d == OddPart(n - 1)
        s == TwoExp(n - 1)
        x == ModPow(a, d, n)
    IN  IF x = 1 \/ x = n - 1 THEN TRUE ELSE MRSquares(x, s - 1, n)

\* the inputs is_prime is run on
MRInputs == {2, 3, 5, 97, 7919, 4, 9, 100, 7921}

MrInit ==
    /\ mr_pc = "start"
    /\ mr_n \in MRInputs
    /\ mr_certainty \in 1..MaxCertainty
    /\ mr_round = 0
    /\ mr_a = 0

MrIdle ==
    /\ mr_pc = "idle"
    /\ mr_n = 2
    /\ mr_certainty = 1
    /\ mr_round = 0
    /\ mr_a = 0

\* lines 21-24: the small and the even inputs
MrSpecialCases ==
    /\ mr_pc = "start"
    /\ mr_pc' = IF mr_n <= 3 THEN (IF mr_n > 1 THEN "true" ELSE "false")
                ELSE IF mr_n % 2 = 0 THEN "false"
                ELSE "rounds"
    /\ UNCHANGED <<mr_n, mr_certainty, mr_round, mr_a>>
    /\ MrFrame

\* lines 32-42: one iteration of the for loop, with its random base
MrRound ==
    /\ mr_pc = "rounds"
    /\ mr_round < mr_certainty
    /\ \E r \in 0..MaxRandMR :
         /\ mr_a' = MRBase(mr_n, r)
         /\ IF MRRound(mr_n, mr_a')
            THEN /\ mr_round' = mr_round + 1
                 /\ mr_pc' = "rounds"
            ELSE /\ mr_round' = mr_round
                 /\ mr_pc' = "false"
    /\ UNCHANGED <<mr_n, mr_certainty>>
    /\ MrFrame

\* line 43: every round passed
MrAccept ==
    /\ mr_pc = "rounds"
    /\ mr_round = mr_certainty
    /\ mr_pc' = "true"
    /\ UNCHANGED <<mr_n, mr_certainty, mr_round, mr_a>>
    /\ MrFrame

---------------------------------------------------------------------------
(* MicroRSA.__init__, generate_prime_candidate, generate_prime *)

\* the key length the instance is asked for
RequestedKeyLength == 16
\* urandom.getrandbits(32) returns a value in 0..MaxRand32 (the source: 0..2^32 - 1)
MaxRand32 == 15
\* the clock advances by 0 or TickStep milliseconds between two readings
TickStep == 4000

\* self.key_length (line 9)
key_length == IF RequestedKeyLength < 512 THEN RequestedKeyLength ELSE 512
\* self.e (line 10)
e == 65537
\* self.max_attempts (line 11)
max_attempts == 500
\* self.prime_certainty (line 12)
prime_certainty == 5
\* the time budget of generate_prime, in milliseconds (line 60)
Deadline == 8000

\* line 51: the candidate made of the random value r
Candidate(r) == BitOr(r, BitOr(2 ^ ((key_length \div 2) - 1), 1))

\* a deadline test that never fires
DeadlinePassed_never(elapsed) == FALSE

\* line 60: time.ticks_diff(time.ticks_ms(), start_time) > 8000
DeadlinePassed(elapsed) == elapsed > Deadline

\* line 56: for _ in range(self.max_attempts)
AttemptsLeft(attempt) == attempt < max_attempts

PgInit ==
    /\ pg_pc = "loop"
    /\ pg_attempt = 0
    /\ pg_candidate = 0
    /\ pg_round = 0
    /\ pg_elapsed = 0

PgIdle ==
    /\ pg_pc = "idle"
    /\ pg_attempt = 0
    /\ pg_candidate = 0
    /\ pg_round = 0
    /\ pg_elapsed = 0

\* line 56: the next iteration of the for loop, or line 62 when the range is used up
PgLoop ==
    /\ pg_pc = "loop"
    /\ pg_pc' = IF AttemptsLeft(pg_attempt) THEN "candidate" ELSE "raised"
    /\ UNCHANGED <<pg_attempt, pg_candidate, pg_round, pg_elapsed>>
    /\ PgFrame

\* lines 46-52 and 21-24: one draw of generate_prime_candidate (a value below 3 is
\* drawn again), then the special cases of is_prime on the candidate
PgCandidate ==
    /\ pg_pc = "candidate"
    /\ \E r \in 0..MaxRand32 :
         IF r < 3
         THEN UNCHANGED <<pg_pc, pg_candidate, pg_round>>
         ELSE /\ pg_candidate' = Candidate(r)
              /\ pg_round' = 0
              /\ pg_pc' = IF pg_candidate' <= 3
                          THEN (IF pg_candidate' > 1 THEN "returned" ELSE "timecheck")
                          ELSE IF pg_candidate' % 2 = 0 THEN "timecheck"
                          ELSE "rounds"
    /\ UNCHANGED <<pg_attempt, pg_elapsed>>
    /\ PgFrame

\* lines 32-42: one Miller-Rabin round on the candidate
PgRound ==
    /\ pg_pc = "rounds"
    /\ pg_round < prime_certainty
    /\ \E r \in 0..MaxRand16 :
         IF MRRound(pg_candidate, MRBase(pg_candidate, r))
         THEN /\ pg_round' = pg_round + 1
              /\ pg_pc' = "rounds"
         ELSE /\ pg_round' = pg_round
              /\ pg_pc' = "timecheck"
    /\ UNCHANGED <<pg_attempt, pg_candidate, pg_elapsed>>
    /\ PgFrame

\* lines 43 and 58-59: is_prime returned True, the candidate is returned
PgAccept ==
    /\ pg_pc = "rounds"
    /\ pg_round = prime_certainty
    /\ pg_pc' = "returned"
    /\ UNCHANGED <<pg_attempt, pg_candidate, pg_round, pg_elapsed>>
    /\ PgFrame

\* lines 60-62: the clock is read after a rejected candidate
PgTimeCheck ==
    /\ pg_pc = "timecheck"
    /\ \E dt \in {0, TickStep, 3 * TickStep} :
         /\ pg_elapsed' = pg_elapsed + dt
         /\ IF DeadlinePassed(pg_elapsed')
            THEN /\ pg_pc' = "raised"
                 /\ pg_attempt' = pg_attempt
            ELSE /\ pg_pc' = "loop"
                 /\ pg_attempt' = pg_attempt + 1
    /\ UNCHANGED <<pg_candidate, pg_round>>
    /\ PgFrame

NextPrimeGen == PgLoop \/ PgCandidate \/ PgRound \/ PgAccept \/ PgTimeCheck

---------------------------------------------------------------------------
(* MicroRSA.generate_keys, sign, verify *)

\* the SHA-256 digest of the message, read as an integer, is a value in 0..MaxDigest
MaxDigest == 3

\* the largest integer of the model
IntMax == 2 * (2 ^ 30 - 1) + 1

\* the moduli of the model: p * q is an integer of the model
Fits(p, q) == p <= IntMax \div q

\* The values urandom.getrandbits(32) returns in generate_keys: the small ones, and
\* one that makes a prime candidate p with e dividing p - 1 (9044107 = 138 * e + 1)
Rand32Draws == (0..MaxRand32) \cup {138 * e + 1}

\* MicroRSA._i2osp: x.to_bytes(x_len, 'big'), for an x that fits
RECURSIVE i2osp(_, _)
i2osp(x, x_len) ==
    IF x_len = 0 THEN <<>> ELSE Append(i2osp(x \div 256, x_len - 1), x % 256)

\* MicroRSA._os2ip: int.from_bytes(octets, 'big')
RECURSIVE os2ip(_)
os2ip(octets) ==
    IF octets = <<>> THEN 0
    ELSE 256 * os2ip(SubSeq(octets, 1, Len(octets) - 1)) + octets[Len(octets)]

\* whether x fits x_len bytes
FitsBytes(x, x_len) == x < 256 ^ x_len

\* lines 71-72
Modulus(p, q) == p * q
Phi(p, q) == (p - 1) * (q - 1)

\* line 102: s = pow(m, d, n)
SignInt(m, d, n) == ModPow(m, d, n)

\* line 110: v = pow(s, e, n)
VerifyInt(s, n) == ModPow(s, e, n)

RsaInit ==
    /\ rsa_pc = "candidate"
    /\ rsa_stage = "p1"
    /\ rsa_p = 0
    /\ rsa_q = 0
    /\ rsa_candidate = 0
    /\ rsa_round = 0
    /\ rsa_retried = FALSE
    /\ rsa_d = None
    /\ rsa_m = 0
    /\ rsa_sig = <<>>
    /\ rsa_ok = FALSE

RsaIdle ==
    /\ rsa_pc = "idle"
    /\ rsa_stage = "p1"
    /\ rsa_p = 0
    /\ rsa_q = 0
    /\ rsa_candidate = 0
    /\ rsa_round = 0
    /\ rsa_retried = FALSE
    /\ rsa_d = None
    /\ rsa_m = 0
    /\ rsa_sig = <<>>
    /\ rsa_ok = FALSE

\* generate_prime, lines 57 and 46-52, then lines 21-24 of is_prime: a candidate
\* is drawn (one whose product with the other prime is an integer of the model)
RsaCandidate ==
    /\ rsa_pc = "candidate"
    /\ \E r \in Rand32Draws :
         /\ r >= 3
         /\ rsa_stage \in {"q1", "q2"} => Fits(rsa_p, Candidate(r))
         /\ rsa_candidate' = Candidate(r)
         /\ rsa_round' = 0
         /\ rsa_pc' = IF rsa_candidate' % 2 = 0 THEN "rejected" ELSE "rounds"
    /\ UNCHANGED <<rsa_stage, rsa_p, rsa_q, rsa_retried, rsa_d, rsa_m, rsa_sig, rsa_ok>>
    /\ RsaFrame

\* is_prime, lines 32-42: one Miller-Rabin round on the candidate
RsaRound ==
    /\ rsa_pc = "rounds"
    /\ rsa_round < prime_certainty
    /\ \E r \in 0..MaxRand16 :
         IF MRRound(rsa_candidate, MRBase(rsa_candidate, r))
         THEN /\ rsa_round' = rsa_round + 1
              /\ rsa_pc' = "rounds"
         ELSE /\ rsa_round' = rsa_round
              /\ rsa_pc' = "rejected"
    /\ UNCHANGED <<rsa_stage, rsa_p, rsa_q, rsa_candidate, rsa_retried, rsa_d, rsa_m,
                   rsa_sig, rsa_ok>>
    /\ RsaFrame

\* generate_prime, lines 56-61: the candidate was rejected, the loop goes on
RsaRetry ==
    /\ rsa_pc = "rejected"
    /\ rsa_pc' = "candidate"
    /\ UNCHANGED <<rsa_stage, rsa_p, rsa_q, rsa_candidate, rsa_round, rsa_retried,
                   rsa_d, rsa_m, rsa_sig, rsa_ok>>
    /\ RsaFrame

\* generate_prime, lines 56-62: the attempts or the 8 seconds are used up, the
\* ValueError leaves generate_keys
RsaGiveUp ==
    /\ rsa_pc = "rejected"
    /\ rsa_pc' = "raised"
    /\ UNCHANGED <<rsa_stage, rsa_p, rsa_q, rsa_candidate, rsa_round, rsa_retried,
                   rsa_d, rsa_m, rsa_sig, rsa_ok>>
    /\ RsaFrame

\* lines 66-69: after q = generate_prime(), q is drawn again while p == q
AfterQ1(p, q) == IF p = q THEN "candidate" ELSE "check"

\* generate_prime returned the candidate (lines 43, 58-59) to generate_keys, which
\* assigns it: line 65 (p1), lines 66-69 (q1), line 76 (p2), line 77 (q2)
RsaAccept ==
    /\ rsa_pc = "rounds"
    /\ rsa_round = prime_certainty
    /\ CASE rsa_stage = "p1" ->
              /\ rsa_p' = rsa_candidate
              /\ rsa_stage' = "q1"
              /\ rsa_pc' = "candidate"
              /\ UNCHANGED rsa_q
         [] rsa_stage = "q1" ->
              /\ rsa_q' = rsa_candidate
              /\ rsa_pc' = AfterQ1(rsa_p, rsa_q')
              /\ UNCHANGED <<rsa_p, rsa_stage>>
         [] rsa_stage = "p2" ->
              /\ rsa_p' = rsa_candidate
              /\ rsa_stage' = "q2"
              /\ rsa_pc' = "candidate"
              /\ UNCHANGED rsa_q
         [] rsa_stage = "q2" ->
              /\ rsa_q' = rsa_candidate
              /\ rsa_pc' = "check"
              /\ UNCHANGED <<rsa_p, rsa_stage>>
    /\ UNCHANGED <<rsa_candidate, rsa_round, rsa_retried, rsa_d, rsa_m, rsa_sig, rsa_ok>>
    /\ RsaFrame

\* lines 71-83: n and phi are computed; while gcd(e, phi) != 1 both primes are
\* drawn again (lines 75-79); otherwise d = modinv(e, phi) and the keys are returned
RsaCheck ==
    /\ rsa_pc = "check"
    /\ IF gcd(e, Phi(rsa_p, rsa_q)) # 1
       THEN /\ rsa_stage' = "p2"
            /\ rsa_pc' = "candidate"
            /\ rsa_retried' = TRUE
            /\ UNCHANGED rsa_d
       ELSE /\ rsa_d' = modinv(e, Phi(rsa_p, rsa_q))
            /\ rsa_pc' = "keys"
            /\ UNCHANGED <<rsa_stage, rsa_retried>>
    /\ UNCHANGED <<rsa_p, rsa_q, rsa_candidate, rsa_round, rsa_m, rsa_sig, rsa_ok>>
    /\ RsaFrame

\* lines 98-103: sign(message, (n, d)) of a message with digest m; to_bytes raises
\* OverflowError when s does not fit key_length // 8 bytes
RsaSign ==
    /\ rsa_pc = "keys"
    /\ ~rsa_d.none
    /\ \E m \in 0..MaxDigest :
         LET s == SignInt(m, rsa_d.val, Modulus(rsa_p, rsa_q))
         IN  /\ rsa_m' = m
             /\ IF FitsBytes(s, key_length \div 8)
                THEN /\ rsa_sig' = i2osp(s, key_length \div 8)
                     /\ rsa_pc' = "signed"
                ELSE /\ rsa_sig' = <<>>
                     /\ rsa_pc' = "sign_raised"
    /\ UNCHANGED <<rsa_stage, rsa_p, rsa_q, rsa_candidate, rsa_round, rsa_retried,
                   rsa_d, rsa_ok>>
    /\ RsaFrame

\* lines 105-111: verify(message, signature, (n, e)) of the same message
RsaVerify ==
    /\ rsa_pc = "signed"
    /\ rsa_ok' = (rsa_m = VerifyInt(os2ip(rsa_sig), Modulus(rsa_p, rsa_q)))
    /\ rsa_pc' = "verified"
    /\ UNCHANGED <<rsa_stage, rsa_p, rsa_q, rsa_candidate, rsa_round, rsa_retried,
                   rsa_d, rsa_m, rsa_sig>>
    /\ RsaFrame

NextRSA ==
    \/ RsaCandidate
    \/ RsaRound
    \/ RsaRetry
    \/ RsaGiveUp
    \/ RsaAccept
    \/ RsaCheck
    \/ RsaSign
    \/ RsaVerify

---------------------------------------------------------------------------
(* The claims about MicroRSA *)

\* a and m have no common divisor above 1 (m >= 1, |a| <= MaxA + 1)
Coprime(a, m) == \A k \in 2..m : ~(a % k = 0 /\ m % k = 0)

\* C4: for all integers a and all moduli m with gcd(a, m) = 1, modinv(a, m) returns
\* an x with 0 <= x < m and (x * a) mod m = 1, and never reports "no inverse".
\* Stated for the moduli m >= 2 (modulo 1 no product is 1).
C4_ModInvOfCoprime ==
    (mi_pc = "done" /\ mi_m >= 2 /\ Coprime(mi_a, mi_m)) =>
        /\ ~mi_res.none
        /\ 0 <= mi_res.val
        /\ mi_res.val < mi_m
        /\ (mi_res.val * mi_a) % mi_m = 1

\* a^(n-1) = 1 (mod n): a is a Fermat liar of n when n is composite
FermatPasses(n, a) == ModPow(a, n - 1, n) = 1

\* C5 as stated: is_prime returns true for 2, 3, 5, 97, 7919 and false for 4, 9,
\* 100, 7921, for every round count >= 1 and every sequence of random bases.
C5_KnownPrimesAndComposites ==
    /\ mr_pc = "true" => mr_n \in {2, 3, 5, 97, 7919}
    /\ mr_pc = "false" => mr_n \in {4, 9, 100, 7921}

\* C5 amended: is_prime returns true for 2, 3, 5, 97, 7919 and false for 4, 9, 100,
\* for every round count and every sequence of bases; on 7921 = 89^2 a round passes
\* exactly when its base a has a^7920 = 1 (mod 7921), so is_prime(7921) returns
\* false at the first base that has not, and true when every base drawn has.
C5_KnownPrimesAndCompositesAmended ==
    /\ mr_pc = "true" => mr_n \in {2, 3, 5, 97, 7919, 7921}
    /\ mr_pc = "false" => mr_n \in {4, 9, 100, 7921}
    /\ (mr_n = 7921 /\ mr_pc = "false") => ~FermatPasses(mr_n, mr_a)
    /\ (mr_n = 7921 /\ mr_round > 0 /\ mr_pc # "false") => FermatPasses(mr_n, mr_a)
    /\ (mr_n = 7921 /\ mr_pc = "true") => mr_round = mr_certainty

\* is_prime(7921) has returned True after all its rounds
C5_Witness ==
    /\ mr_pc = "true"
    /\ mr_n = 7921
    /\ mr_round = mr_certainty
    /\ mr_certainty > 1

\* generate_prime has ended
PgDone == pg_pc \in {"returned", "raised"}

\* C10, the part about states: at most max_attempts candidates are tested, none is
\* generated once the clock was found beyond the deadline, a returned candidate is
\* one that passed every round of is_prime, and the error is raised otherwise
PgSafe ==
    /\ pg_attempt <= max_attempts
    /\ pg_pc \in {"candidate", "rounds", "timecheck"} => pg_attempt < max_attempts
    /\ pg_elapsed > Deadline => pg_pc = "raised"
    /\ pg_pc = "returned" => (pg_round = prime_certainty \/ pg_candidate <= 3)
    /\ pg_pc = "raised" => (pg_attempt = max_attempts \/ pg_elapsed > Deadline)

\* what is left of a call of generate_prime: the attempts left, and within an
\* attempt the steps left
PgRank ==
    (max_attempts - pg_attempt) * 16
    + (CASE pg_pc = "loop" -> 12
         [] pg_pc = "candidate" -> 11
         [] pg_pc = "rounds" -> 10 - pg_round
         [] pg_pc = "timecheck" -> 4
         [] OTHER -> 0)

\* a step of generate_prime can be taken (of PgRound the guard is written out: the
\* rest of it, a draw from a non-empty range and an IF, is always possible)
PgCanStep ==
    \/ ENABLED PgLoop
    \/ ENABLED PgCandidate
    \/ pg_pc = "rounds" /\ pg_round < prime_certainty
    \/ ENABLED PgAccept
    \/ ENABLED PgTimeCheck

C3_DistinctPrimesCoprime ==
    rsa_pc = "keys" =>
        /\ rsa_p # rsa_q
        /\ gcd(e, Phi(rsa_p, rsa_q)) = 1
        /\ ~rsa_d.none

\* C1: for every key pair returned by generate_keys and every message, sign
\* succeeds and verify of the signature returns true.
C1_RsaRoundTrip ==
    /\ rsa_pc # "sign_raised"
    /\ rsa_pc = "verified" => rsa_ok

---------------------------------------------------------------------------
(* MicroEd25519: the parameters, inv, point_compress, point_decompress *)

\* the bits of an x coordinate in a compressed point (the source: 255)
XBits == 15

\* self.p, here 2^15 - 19 (the source: 2^255 - 19)
ed_p == 2 ^ XBits - 19

\* self.inv(x) = pow(x, p - 2, p)
inv(x) == ModPow(x % ed_p, ed_p - 2, ed_p)

\* a * b % p on Python's unbounded integers
FMul(a, b) == ((a % ed_p) * (b % ed_p)) % ed_p

\* self.d = -121665 * inv(121666) % p
ed_d == (0 - FMul(121665, inv(121666))) % ed_p

\* self.l: the order of the base point (the source: 2^252 + 277...493, the order of
\* its base point on the curve over 2^255 - 19)
ed_l == 241

\* the coordinates the constructor gives to point_compress: the point of order
\* ed_l with the least x on the curve -x^2 + y^2 = 1 + d x^2 y^2 over ed_p
BasePoint == <<46, 9966>>

\* -x^2 + y^2 = 1 + d x^2 y^2 (mod p): the curve the parameters p, d, l, G are of
OnCurve(x, y) ==
    (y * y - x * x) % ed_p = (1 + FMul(ed_d, FMul(x * x, y * y))) % ed_p

\* point_compress(x, y) = (x & (2^255 - 1)) | ((y & 1) << 255)
point_compress(x, y) == (x % (2 ^ XBits)) + (y % 2) * (2 ^ XBits)

\* self.G
ed_G == point_compress(BasePoint[1], BasePoint[2])

\* point_decompress(compressed): x from the low bits, y from
\* y2 = (x*x - 1) * inv(d*x*x + 1) % p by the square root for p = 5 mod 8
point_decompress(compressed) ==
    LET x == compressed % (2 ^ XBits)
        y_sign == (compressed \div (2 ^ XBits)) % 2
        y2 == FMul(x * x - 1, inv(FMul(ed_d, x * x) + 1))
        y0 == ModPow(y2, (ed_p + 3) \div 8, ed_p)
        y1 == IF (y0 * y0 - y2) % ed_p # 0
              THEN FMul(y0, ModPow(2, (ed_p - 1) \div 4, ed_p))
              ELSE y0
    IN  <<x, IF y1 % 2 # y_sign THEN (0 - y1) % ed_p ELSE y1>>

---------------------------------------------------------------------------
(* MicroEd25519.point_add, scalar_mult *)

\* a point, or Python's None
NoPoint == [none |-> TRUE, val |-> <<0, 0>>]
SomePoint(P) == [none |-> FALSE, val |-> P]

\* an integer (a compressed point), or Python's None
NoInt == [none |-> TRUE, val |-> 0]
SomeInt(c) == [none |-> FALSE, val |-> c]

\* the value of an expression, computed once and then named: Once({F(v) : v \in {e}})
\* is F(e) with e evaluated a single time, however often F uses it
Once(S) == CHOOSE v \in S : TRUE

\* the body of point_add for two points that are not None
PointSum(P, Q) ==
    LET x1 == P[1]
        y1 == P[2]
        x2 == Q[1]
        y2 == Q[2]
        A == (y1 - y2) % ed_p
        B == (x1 - x2) % ed_p
        C == (y1 + y2) % ed_p
        D == (x1 + x2) % ed_p
        E == FMul(A, A)
        F == FMul(B, B)
        G == FMul(C, C)
        H == FMul(D, D)
        I == FMul(E, F)
        J == FMul(G, H)
        K == (J - I) % ed_p
        x3 == FMul(FMul(A, B), J + FMul(ed_d, I))
        y3 == FMul(FMul(C, D), J - FMul(ed_d, I))
        z3 == FMul(K, ed_p - 1)
    IN  Once({<<FMul(x3, inv_z3), FMul(y3, inv_z3)>> : inv_z3 \in {inv(z3)}})

\* point_add(P, Q)
point_add(P, Q) ==
    Once({IF p1.none THEN q1
          ELSE IF q1.none THEN p1
          ELSE SomePoint(PointSum(p1.val, q1.val)) : p1 \in {P}, q1 \in {Q}})

\* the width of a window of scalar_mult
window_size == 3

\* points[i] of scalar_mult, 1 <= i < 2^window_size: P added to itself
RECURSIVE WindowPoint(_, _)
WindowPoint(P, i) ==
    IF i = 1 THEN SomePoint(P) ELSE point_add(WindowPoint(P, i - 1), SomePoint(P))

\* windows of scalar_mult: the base-2^window_size digits of k, the lowest first
RECURSIVE Windows(_)
Windows(k) ==
    IF k = 0 THEN <<>>
    ELSE <<k % (2 ^ window_size)>> \o Windows(k \div (2 ^ window_size))

\* the inner loop of scalar_mult: Q doubled n times, None left alone
RECURSIVE Doubled(_, _)
Doubled(Q, n) ==
    IF n = 0 THEN Q
    ELSE Once({IF q.none THEN q ELSE Doubled(point_add(q, q), n - 1) : q \in {Q}})

\* the body of the outer loop of scalar_mult for the window digit w
WindowStep(Q, P, w) ==
    Once({IF w = 0 THEN Q2
          ELSE IF Q2.none THEN WindowPoint(P, w)
          ELSE point_add(Q2, WindowPoint(P, w)) : Q2 \in {Doubled(Q, window_size)}})

\* the outer loop of scalar_mult over windows[i], windows[i-1], ..., windows[1]
RECURSIVE WindowLoop(_, _, _, _)
WindowLoop(Q, P, windows, i) ==
    IF i = 0 THEN Q
    ELSE Once({WindowLoop(Q3, P, windows, i - 1) : Q3 \in {WindowStep(Q, P, windows[i])}})

\* scalar_mult(k, P_compressed): a compressed point, or None
scalar_mult(k, P_compressed) ==
    Once({IF Q.none THEN NoInt ELSE SomeInt(point_compress(Q.val[1], Q.val[2])) :
          Q \in {Once({WindowLoop(NoPoint, P, windows, Len(windows)) :
                       P \in {point_decompress(P_compressed)}, windows \in {Windows(k)}})}})

---------------------------------------------------------------------------
(* The curve operations on their own *)

\* the points are the base point and the curve points with x in 0..MaxX; the
\* scalars are 0..MaxK
MaxX == 5
MaxK == 17

CurvePoints ==
    {BasePoint} \cup {pt \in (0..MaxX) \X (0..(ed_p - 1)) : OnCurve(pt[1], pt[2])}

CvInit ==
    /\ cv_pc = "start"
    /\ \E pt \in CurvePoints : cv_x = pt[1] /\ cv_y = pt[2]
    /\ cv_k \in 0..MaxK
    /\ cv_c = 0
    /\ cv_pt = <<0, 0>>
    /\ cv_res = NoInt

CvIdle ==
    /\ cv_pc = "idle"
    /\ cv_x = 0
    /\ cv_y = 0
    /\ cv_k = 0
    /\ cv_c = 0
    /\ cv_pt = <<0, 0>>
    /\ cv_res = NoInt

\* c = point_compress(x, y)
CvCompress ==
    /\ cv_pc = "start"
    /\ cv_c' = point_compress(cv_x, cv_y)
    /\ cv_pc' = "compressed"
    /\ UNCHANGED <<cv_x, cv_y, cv_k, cv_pt, cv_res>>
    /\ CvFrame

\* point_decompress(c)
CvDecompress ==
    /\ cv_pc = "compressed"
    /\ cv_pt' = point_decompress(cv_c)
    /\ cv_pc' = "decompressed"
    /\ UNCHANGED <<cv_x, cv_y, cv_k, cv_c, cv_res>>
    /\ CvFrame

\* scalar_mult(k, c)
CvScalarMult ==
    /\ cv_pc = "decompressed"
    /\ cv_res' = scalar_mult(cv_k, cv_c)
    /\ cv_pc' = "done"
    /\ UNCHANGED <<cv_x, cv_y, cv_k, cv_c, cv_pt>>
    /\ CvFrame

---------------------------------------------------------------------------
(* The claims about the curve operations *)

\* C7: for every point (x, y) on the curve, the base point given to point_compress
\* in the constructor included, point_decompress(point_compress(x, y)) returns the
\* same pair (x, y).
C7_DecompressOfCompress ==
    cv_pc \in {"decompressed", "done"} => cv_pt = <<cv_x, cv_y>>

\* P + P + ... + P, k times, computed with point_add from None
RECURSIVE KFoldSum(_, _)
KFoldSum(k, P) ==
    IF k = 0 THEN NoPoint ELSE point_add(KFoldSum(k - 1, P), SomePoint(P))

\* C8: for every scalar k >= 0 and every compressed curve point P, scalar_mult(k, P)
\* is None when k = 0, is P when k = 1, and in general is the compression of the
\* k-fold sum P + ... + P computed with point_add, also for k >= 8 where more than
\* one window digit is processed.
C8_ScalarMultIsRepeatedAdd ==
    cv_pc = "done" =>
        LET S == KFoldSum(cv_k, point_decompress(cv_c))
        IN  /\ cv_k = 0 => cv_res.none
            /\ cv_k = 1 => cv_res = SomeInt(cv_c)
            /\ cv_res = (IF S.none THEN NoInt
                         ELSE SomeInt(point_compress(S.val[1], S.val[2])))

---------------------------------------------------------------------------
(* MicroEd25519.generate_secret, generate_keys, sign, verify *)

\* the bytes of a scalar and of a compressed point (the source: 32); a signature
\* is twice that (the source: 64)
ScalarBytes == 2

\* SHA-256 is an input of the model.  A digest read as an integer is a value
\* in 0..MaxSeedDigest where a secret scalar is cut from it, and a value in
\* 0..MaxScalarDraw where it is reduced modulo l; the messages are 0..MaxMsg
MaxSeedDigest == 15
MaxScalarDraw == 9
MaxMsg == 1

\* v.to_bytes(n, 'little'), 0 <= v < 256^n
RECURSIVE ToBytesLE(_, _)
ToBytesLE(v, n) ==
    IF n = 0 THEN <<>> ELSE <<v % 256>> \o ToBytesLE(v \div 256, n - 1)

\* int.from_bytes(s, 'little')
RECURSIVE FromBytesLE(_)
FromBytesLE(s) ==
    IF s = <<>> THEN 0 ELSE s[1] + 256 * FromBytesLE(Tail(s))

\* a &= ~7; a &= ~(1 << 254); a |= (1 << 254), the bit 254 being bit XBits - 1
Clamp(a) ==
    LET low == a - (a % 8)
        top == 2 ^ (XBits - 1)
    IN  IF (low \div top) % 2 = 1 THEN low ELSE low + top

\* sign(msg, secret) once its three digests are known: digest_a of the secret's
\* bytes, r of the message (h[32:] is empty: the digest h has 32 bytes), and hram of
\* R, A and the message, reduced modulo l (S is reduced modulo l, so the
\* reduction of hram before the product changes nothing).  R is None when
\* r = 0, and R.to_bytes then raises.
sign(secret, digest_a, r, hram) ==
    LET a == Clamp(digest_a)
        R == scalar_mult(r, ed_G)
        S == (r + hram * a) % ed_l
    IN  IF R.none THEN [raised |-> TRUE, sig |-> <<>>]
        ELSE [raised |-> FALSE,
              sig |-> ToBytesLE(R.val, ScalarBytes) \o ToBytesLE(S, ScalarBytes)]

\* the input of the digest hram in sign
SignHashInput(digest_a, r, msg) ==
    LET R == scalar_mult(r, ed_G)
        A == scalar_mult(Clamp(digest_a), ed_G)
    IN  <<ToBytesLE(R.val, ScalarBytes), A.val, msg>>

\* verify(msg, sig, public) once its digest h, reduced modulo l, is known:
\* "True", "False" or "raised" (point_decompress of the None that scalar_mult
\* returns for h = 0)
verify(sig, public, h) ==
    IF Len(sig) # 2 * ScalarBytes THEN "False"
    ELSE LET R == FromBytesLE(SubSeq(sig, 1, ScalarBytes))
             S == FromBytesLE(SubSeq(sig, ScalarBytes + 1, 2 * ScalarBytes))
         IN  IF S >= ed_l THEN "False"
             ELSE LET left == scalar_mult(S, ed_G)
                      hA == scalar_mult(h, public)
                  IN  IF hA.none THEN "raised"
                      ELSE LET right == point_add(SomePoint(point_decompress(R)),
                                                  SomePoint(point_decompress(hA.val)))
                           IN  IF /\ ~left.none
                                  /\ left.val = point_compress(right.val[1], right.val[2])
                               THEN "True"
                               ELSE "False"

\* public.to_bytes(32, 'little') is possible
FitsScalarBytes(v) == 0 <= v /\ v < 256 ^ ScalarBytes

\* what a call of verify can end with: A.to_bytes(32, 'little') is reached when
\* the length and S have passed their tests, and when the key does not fit it
\* raises or truncates, as the build has it
VerifyOutcomes(sig, public, h) ==
    {verify(sig, public, h)}
        \cup (IF /\ Len(sig) = 2 * ScalarBytes
                 /\ FromBytesLE(SubSeq(sig, ScalarBytes + 1, 2 * ScalarBytes)) < ed_l
                 /\ ~FitsScalarBytes(public)
              THEN {"raised"}
              ELSE {})

EdInit ==
    /\ ed_pc = "start"
    /\ ed_secret = 0
    /\ ed_public = 0
    /\ ed_msg \in 0..MaxMsg
    /\ ed_sig = <<>>
    /\ ed_hin = <<>>
    /\ ed_h = 0
    /\ ed_res = "none"

EdIdle ==
    /\ ed_pc = "idle"
    /\ ed_secret = 0
    /\ ed_public = 0
    /\ ed_msg = 0
    /\ ed_sig = <<>>
    /\ ed_hin = <<>>
    /\ ed_h = 0
    /\ ed_res = "none"

\* the byte strings and the public keys verify is called with on its own
SigByteDraws == {0, 1, 9, 255}
SigInputs ==
    [1..(2 * ScalarBytes) -> SigByteDraws]
        \cup {<<>>, [i \in 1..(2 * ScalarBytes - 1) |-> 0],
              [i \in 1..(2 * ScalarBytes + 1) |-> 0]}
PublicInputs == {0, ed_G, 256 ^ ScalarBytes}

\* a call of verify with any signature and any public key
EdVerifyInit ==
    /\ ed_pc = "signed"
    /\ ed_secret = 0
    /\ ed_public \in PublicInputs
    /\ ed_msg \in 0..MaxMsg
    /\ ed_sig \in SigInputs
    /\ ed_hin = <<>>
    /\ ed_h = 0
    /\ ed_res = "none"

\* generate_keys(): the secret cut from the digest of a random seed, the public
\* key scalar_mult(secret, G)
EdGenerateKeys ==
    /\ ed_pc = "start"
    /\ \E digest \in 0..MaxSeedDigest :
          /\ ed_secret' = Clamp(digest)
          /\ ed_public' = scalar_mult(Clamp(digest), ed_G).val
    /\ ed_pc' = "keys"
    /\ UNCHANGED <<ed_msg, ed_sig, ed_hin, ed_h, ed_res>>
    /\ EdFrame

\* sign(msg, secret)
EdSign ==
    /\ ed_pc = "keys"
    /\ \E digest_a \in 0..MaxSeedDigest, r \in 0..MaxScalarDraw, hram \in 0..MaxScalarDraw :
          LET s == sign(ed_secret, digest_a, r, hram)
          IN  IF s.raised
              THEN /\ ed_pc' = "sign_raised"
                   /\ UNCHANGED <<ed_sig, ed_hin, ed_h>>
              ELSE /\ ed_pc' = "signed"
                   /\ ed_sig' = s.sig
                   /\ ed_hin' = SignHashInput(digest_a, r, ed_msg)
                   /\ ed_h' = hram
    /\ UNCHANGED <<ed_secret, ed_public, ed_msg, ed_res>>
    /\ EdFrame

\* verify(msg, sig, public): the digest of an input that sign has hashed is the
\* digest sign got
EdVerify ==
    /\ ed_pc = "signed"
    /\ \E h \in 0..MaxScalarDraw :
          /\ (Len(ed_sig) = 2 * ScalarBytes
                /\ ed_hin = <<SubSeq(ed_sig, 1, ScalarBytes), ed_public, ed_msg>>)
                => h = ed_h
          /\ ed_res' \in VerifyOutcomes(ed_sig, ed_public, h)
    /\ ed_pc' = "verified"
    /\ UNCHANGED <<ed_secret, ed_public, ed_msg, ed_sig, ed_hin, ed_h>>
    /\ EdFrame

---------------------------------------------------------------------------
(* The claims about MicroEd25519 *)

\* C2: for every (secret, public) returned by generate_keys() and every message m,
\* sign(m, secret) returns a signature of 64 bytes (here 2 * ScalarBytes) and
\* verify(m, sign(m, secret), public) returns true.
C2_EdRoundTrip ==
    /\ ed_pc # "sign_raised"
    /\ ed_pc \in {"signed", "verified"} => Len(ed_sig) = 2 * ScalarBytes
    /\ ed_pc = "verified" => ed_res = "True"

\* C6: verify(msg, sig, public) returns True or False for every byte string sig,
\* every message and every integer public key, and never raises; it returns
\* False when len(sig) is not 64 (here 2 * ScalarBytes) or when the decoded S >= l,
\* and no value of the challenge h or of S, 0 included, leads to an exception.
C6_VerifyTotal ==
    ed_pc = "verified" =>
        /\ ed_res \in {"True", "False"}
        /\ Len(ed_sig) # 2 * ScalarBytes => ed_res = "False"
        /\ (/\ Len(ed_sig) = 2 * ScalarBytes
            /\ FromBytesLE(SubSeq(ed_sig, ScalarBytes + 1, 2 * ScalarBytes)) >= ed_l)
              => ed_res = "False"

---------------------------------------------------------------------------
(* cbor.py: Python values, integers of any size, UTF-8 *)

\* A Python value is a record [t, v]: the type and what it holds.  An int holds
\* its sign and its magnitude |n| as base-256 digits, the highest first with no
\* leading zero, so that the 32- and 64-bit heads are within reach; a str holds
\* its code points; a list or a tuple its items; a dict its (key, value) pairs in
\* insertion order.
PyNone == [t |-> "none", v |-> 0]
PyBool(b) == [t |-> "bool", v |-> b]
PyInt(neg, mag) == [t |-> "int", v |-> [neg |-> neg, mag |-> mag]]
PyBytes(b) == [t |-> "bytes", v |-> b]
PyStr(cps) == [t |-> "str", v |-> cps]
PyList(items) == [t |-> "list", v |-> items]
PyTuple(items) == [t |-> "tuple", v |-> items]
PyDict(pairs) == [t |-> "dict", v |-> pairs]
PyFloat(b) == [t |-> "float", v |-> b]

\* the digits of n >= 0
RECURSIVE Nat256(_)
Nat256(n) == IF n = 0 THEN <<>> ELSE Nat256(n \div 256) \o <<n % 256>>

\* the number the digits stand for (at most three digits)
RECURSIVE NatVal(_)
NatVal(digits) ==
    IF digits = <<>> THEN 0
    ELSE NatVal(SubSeq(digits, 1, Len(digits) - 1)) * 256 + digits[Len(digits)]

\* the digits without their leading zeros
RECURSIVE Strip(_)
Strip(digits) ==
    IF digits # <<>> /\ digits[1] = 0 THEN Strip(Tail(digits)) ELSE digits

\* n - 1 for n >= 1, before the leading zero is dropped
RECURSIVE DecDigits(_)
DecDigits(digits) ==
    LET last == digits[Len(digits)]
        front == SubSeq(digits, 1, Len(digits) - 1)
    IN  IF last > 0 THEN front \o <<last - 1>> ELSE DecDigits(front) \o <<255>>

\* n - 1 for n >= 1
Dec(digits) == Strip(DecDigits(digits))

\* n + 1
RECURSIVE Inc(_)
Inc(digits) ==
    IF digits = <<>> THEN <<1>>
    ELSE LET last == digits[Len(digits)]
             front == SubSeq(digits, 1, Len(digits) - 1)
         IN  IF last < 255 THEN front \o <<last + 1>> ELSE Inc(front) \o <<0>>

\* struct.pack('>H' / '>I' / '>Q', val): the digits on n bytes
Pack(digits, n) == [i \in 1..(n - Len(digits)) |-> 0] \o digits

\* the UTF-8 bytes of one code point
EncodeCodePoint(c) ==
    IF c < 128 THEN <<c>>
    ELSE IF c < 2048 THEN <<192 + (c \div 64), 128 + (c % 64)>>
    ELSE IF c < 65536
         THEN <<224 + (c \div 4096), 128 + ((c \div 64) % 64), 128 + (c % 64)>>
    ELSE <<240 + (c \div 262144), 128 + ((c \div 4096) % 64),
           128 + ((c \div 64) % 64), 128 + (c % 64)>>

\* str.encode('utf-8')
RECURSIVE Utf8Encode(_)
Utf8Encode(cps) ==
    IF cps = <<>> THEN <<>> ELSE EncodeCodePoint(cps[1]) \o Utf8Encode(Tail(cps))

\* b is a continuation byte
IsCont(b) == 128 <= b /\ b <= 191

\* the code point that starts at bytes[i], and the bytes it takes: n = 0 when the
\* bytes are not UTF-8 there
DecodeCodePoint(b, i) ==
    LET b1 == b[i]
        left == Len(b) - i
        c2 == (b1 - 192) * 64 + (b[i + 1] - 128)
        c3 == (b1 - 224) * 4096 + (b[i + 1] - 128) * 64 + (b[i + 2] - 128)
        c4 == (b1 - 240) * 262144 + (b[i + 1] - 128) * 4096
                + (b[i + 2] - 128) * 64 + (b[i + 3] - 128)
    IN  IF b1 < 128 THEN [n |-> 1, c |-> b1]
        ELSE IF 194 <= b1 /\ b1 <= 223 /\ left >= 1 /\ IsCont(b[i + 1])
             THEN [n |-> 2, c |-> c2]
        ELSE IF /\ 224 <= b1 /\ b1 <= 239 /\ left >= 2
                /\ IsCont(b[i + 1]) /\ IsCont(b[i + 2])
                /\ c3 >= 2048 /\ ~(55296 <= c3 /\ c3 <= 57343)
             THEN [n |-> 3, c |-> c3]
        ELSE IF /\ 240 <= b1 /\ b1 <= 244 /\ left >= 3
                /\ IsCont(b[i + 1]) /\ IsCont(b[i + 2]) /\ IsCont(b[i + 3])
                /\ c4 >= 65536 /\ c4 <= 1114111
             THEN [n |-> 4, c |-> c4]
        ELSE [n |-> 0, c |-> 0]

\* bytes.decode('utf-8') from bytes[i] on: ok is FALSE where Python raises
RECURSIVE Utf8Decode(_, _, _)
Utf8Decode(b, i, acc) ==
    IF i > Len(b) THEN [ok |-> TRUE, val |-> acc]
    ELSE LET d == DecodeCodePoint(b, i)
         IN  IF d.n = 0 THEN [ok |-> FALSE, val |-> <<>>]
             ELSE Utf8Decode(b, i + d.n, Append(acc, d.c))

---------------------------------------------------------------------------
(* cbor.py: _write_uint, dump, dumps *)

\* the integer is too large for _write_uint: val > 0xFFFFFFFFFFFFFFFF
TooLarge(val) == Len(val) > 8

\* what _write_uint(w, major, val) writes, val <= 0xFFFFFFFFFFFFFFFF
write_uint(major, val) ==
    IF val = <<>> THEN <<major * 32>>
    ELSE IF Len(val) = 1 /\ val[1] < 24 THEN <<major * 32 + val[1]>>
    ELSE IF Len(val) <= 1 THEN <<major * 32 + 24>> \o val
    ELSE IF Len(val) <= 2 THEN <<major * 32 + 25>> \o Pack(val, 2)
    ELSE IF Len(val) <= 4 THEN <<major * 32 + 26>> \o Pack(val, 4)
    ELSE <<major * 32 + 27>> \o Pack(val, 8)

\* -1 - n for n < 0 of magnitude mag
NegArg_noMinusOne(mag) == mag
NegArg(mag) == Dec(mag)

\* a < b for two str or two bytes: the first difference decides, then the length
RECURSIVE SeqLess(_, _)
SeqLess(a, b) ==
    IF b = <<>> THEN FALSE
    ELSE IF a = <<>> THEN TRUE
    ELSE IF a[1] # b[1] THEN a[1] < b[1]
    ELSE SeqLess(Tail(a), Tail(b))

\* a pair put into pairs sorted by key, before the first greater key
RECURSIVE Inserted(_, _)
Inserted(pairs, kv) ==
    IF pairs = <<>> THEN <<kv>>
    ELSE IF SeqLess(kv[1].v, pairs[1][1].v) THEN <<kv>> \o pairs
    ELSE <<pairs[1]>> \o Inserted(Tail(pairs), kv)

RECURSIVE SortedPairs(_)
SortedPairs(pairs) ==
    IF pairs = <<>> THEN <<>>
    ELSE Inserted(SortedPairs(SubSeq(pairs, 1, Len(pairs) - 1)), pairs[Len(pairs)])

\* keys.sort() of dump: keys that are all str or all bytes are sorted; a str
\* with a bytes raises in the first comparison of the sort, which the bare except
\* drops, and the keys (at most three here) stay as they were
KeyOrder(pairs) ==
    IF \A i \in 1..Len(pairs) : pairs[i][1].t = pairs[1][1].t
    THEN SortedPairs(pairs)
    ELSE pairs

\* dump(obj, w) raises: an integer beyond 64 bits, a dict key that is not str or
\* bytes, or a type that is not supported
RECURSIVE DumpRaises(_)
DumpRaises(obj) ==
    CASE obj.t \in {"none", "bool", "bytes", "str"} -> FALSE
      [] obj.t = "int" ->
            TooLarge(IF obj.v.neg THEN NegArg(obj.v.mag) ELSE obj.v.mag)
      [] obj.t \in {"list", "tuple"} ->
            \E i \in 1..Len(obj.v) : DumpRaises(obj.v[i])
      [] obj.t = "dict" ->
            \E i \in 1..Len(obj.v) :
                \/ obj.v[i][1].t \notin {"str", "bytes"}
                \/ DumpRaises(obj.v[i][2])
      [] OTHER -> TRUE

\* what dump(obj, w) writes to w when it does not raise
RECURSIVE dump(_)
RECURSIVE DumpItems(_)
RECURSIVE DumpPairs(_)
dump(obj) ==
    CASE obj.t = "none" -> <<246>>
      [] obj.t = "bool" -> IF obj.v THEN <<245>> ELSE <<244>>
      [] obj.t = "int" ->
            IF ~obj.v.neg THEN write_uint(0, obj.v.mag)
            ELSE write_uint(1, NegArg(obj.v.mag))
      [] obj.t = "bytes" -> write_uint(2, Nat256(Len(obj.v))) \o obj.v
      [] obj.t = "str" ->
            Once({write_uint(3, Nat256(Len(b))) \o b : b \in {Utf8Encode(obj.v)}})
      [] obj.t \in {"list", "tuple"} ->
            write_uint(4, Nat256(Len(obj.v))) \o DumpItems(obj.v)
      [] obj.t = "dict" ->
            write_uint(5, Nat256(Len(obj.v))) \o DumpPairs(KeyOrder(obj.v))

DumpItems(items) ==
    IF items = <<>> THEN <<>> ELSE dump(items[1]) \o DumpItems(Tail(items))

DumpPairs(pairs) ==
    IF pairs = <<>> THEN <<>>
    ELSE dump(pairs[1][1]) \o dump(pairs[1][2]) \o DumpPairs(Tail(pairs))

\* dumps(obj)
dumps(obj) == dump(obj)

---------------------------------------------------------------------------
(* cbor.py: _read_exact, _read_len, _load_one, loads *)

\* the outcome of a read: the value, and the index of the next byte of the
\* stream; ok is FALSE where the code raises
Raised == [ok |-> FALSE, val |-> PyNone, pos |-> 0]
Read(val, pos) == [ok |-> TRUE, val |-> val, pos |-> pos]

\* _read_exact(r, n) does not raise EOFError: n bytes are left from pos on
CanRead(b, pos, n) == pos + n - 1 <= Len(b)

\* the number of bytes or items a head announces, or -1 when it is beyond every
\* stream the model holds (more than three digits)
Count(digits) == IF Len(digits) > 3 THEN 0 - 1 ELSE NatVal(digits)

\* _read_len(r, ai): the integer of the head, as digits
read_len(b, pos, ai) ==
    LET n == CASE ai = 24 -> 1 [] ai = 25 -> 2 [] ai = 26 -> 4 [] ai = 27 -> 8
               [] OTHER -> 0
    IN  IF ai < 24 THEN Read(Nat256(ai), pos)
        ELSE IF ai > 27 THEN Raised
        ELSE IF ~CanRead(b, pos, n) THEN Raised
        ELSE Read(Strip(SubSeq(b, pos, pos + n - 1)), pos + n)

\* hash(k) does not raise: k can be a key of a dict
RECURSIVE Hashable(_)
Hashable(k) ==
    CASE k.t \in {"list", "dict"} -> FALSE
      [] k.t = "tuple" -> \A i \in 1..Len(k.v) : Hashable(k.v[i])
      [] OTHER -> TRUE

\* the number an int or a bool is
NumOf(x) ==
    IF x.t = "bool"
    THEN [neg |-> FALSE, mag |-> IF x.v THEN <<1>> ELSE <<>>]
    ELSE x.v

\* Python's x == y
RECURSIVE PyEq(_, _)
PyEq(x, y) ==
    IF x.t \in {"bool", "int"} /\ y.t \in {"bool", "int"} THEN NumOf(x) = NumOf(y)
    ELSE IF x.t # y.t THEN FALSE
    ELSE CASE x.t = "none" -> TRUE
           [] x.t \in {"bytes", "str", "float"} -> x.v = y.v
           [] x.t \in {"list", "tuple"} ->
                 /\ Len(x.v) = Len(y.v)
                 /\ \A i \in 1..Len(x.v) : PyEq(x.v[i], y.v[i])
           [] x.t = "dict" ->
                 /\ Len(x.v) = Len(y.v)
                 /\ \A i \in 1..Len(x.v) : \E j \in 1..Len(y.v) :
                        /\ PyEq(x.v[i][1], y.v[j][1])
                        /\ PyEq(x.v[i][2], y.v[j][2])
           [] OTHER -> FALSE

\* d[k] = v: the value of an equal key is replaced, a new key is added last
DictSet(pairs, k, v) ==
    IF \E i \in 1..Len(pairs) : PyEq(pairs[i][1], k)
    THEN [i \in 1..Len(pairs) |->
             IF PyEq(pairs[i][1], k) THEN <<pairs[i][1], v>> ELSE pairs[i]]
    ELSE Append(pairs, <<k, v>>)

\* _load_one(r) with the stream r at pos
RECURSIVE load_one(_, _)
RECURSIVE LoadItems(_, _, _, _)
RECURSIVE LoadPairs(_, _, _, _)

\* the items of an array, n of them left to read
LoadItems(b, pos, n, arr) ==
    IF n = 0 THEN Read(arr, pos)
    ELSE Once({IF ~it.ok THEN Raised
               ELSE LoadItems(b, it.pos, n - 1, Append(arr, it.val)) :
               it \in {load_one(b, pos)}})

\* the pairs of a map, n of them left to read
LoadPairs(b, pos, n, d) ==
    IF n = 0 THEN Read(d, pos)
    ELSE Once({IF ~k.ok THEN Raised
               ELSE Once({IF ~v.ok \/ ~Hashable(k.val) THEN Raised
                          ELSE LoadPairs(b, v.pos, n - 1, DictSet(d, k.val, v.val)) :
                          v \in {load_one(b, k.pos)}}) :
               k \in {load_one(b, pos)}})

\* what _load_one does with the value of the head, read as len
LoadBody(b, major, len) ==
    IF ~len.ok THEN Raised
    ELSE LET n == Count(len.val)
         IN  CASE major = 0 -> Read(PyInt(FALSE, len.val), len.pos)
               [] major = 1 -> Read(PyInt(TRUE, Inc(len.val)), len.pos)
               [] major = 2 ->
                     IF n < 0 \/ ~CanRead(b, len.pos, n) THEN Raised
                     ELSE Read(PyBytes(SubSeq(b, len.pos, len.pos + n - 1)), len.pos + n)
               [] major = 3 ->
                     IF n < 0 \/ ~CanRead(b, len.pos, n) THEN Raised
                     ELSE Once({IF ~s.ok THEN Raised
                                ELSE Read(PyStr(s.val), len.pos + n) :
                                s \in {Utf8Decode(SubSeq(b, len.pos, len.pos + n - 1),
                                                  1, <<>>)}})
               [] major = 4 ->
                     IF n < 0 THEN Raised
                     ELSE Once({IF ~r.ok THEN Raised ELSE Read(PyList(r.val), r.pos) :
                                r \in {LoadItems(b, len.pos, n, <<>>)}})
               [] major = 5 ->
                     IF n < 0 THEN Raised
                     ELSE Once({IF ~r.ok THEN Raised ELSE Read(PyDict(r.val), r.pos) :
                                r \in {LoadPairs(b, len.pos, n, <<>>)}})
               [] OTHER -> Raised

load_one(b, pos) ==
    IF ~CanRead(b, pos, 1) THEN Raised
    ELSE LET ib == b[pos]
             major == ib \div 32
             ai == ib % 32
         IN  IF major = 7
             THEN CASE ai = 20 -> Read(PyBool(FALSE), pos + 1)
                    [] ai = 21 -> Read(PyBool(TRUE), pos + 1)
                    [] ai = 22 -> Read(PyNone, pos + 1)
                    [] ai = 26 ->
                          IF CanRead(b, pos + 1, 4)
                          THEN Read(PyFloat(SubSeq(b, pos + 1, pos + 4)), pos + 5)
                          ELSE Raised
                    [] ai = 27 ->
                          IF CanRead(b, pos + 1, 8)
                          THEN Read(PyFloat(SubSeq(b, pos + 1, pos + 8)), pos + 9)
                          ELSE Raised
                    [] OTHER -> Raised
             ELSE IF major = 6 THEN Raised
             ELSE Once({LoadBody(b, major, len) : len \in {read_len(b, pos + 1, ai)}})

\* loads(b): the value, and where the stream stands after it
loads(b) == load_one(b, 1)

---------------------------------------------------------------------------
(* dumps and loads of one value *)

\* a list, a tuple or a dict of the values built has at most MaxItems items
MaxItems == 2

\* the values without items: None, the booleans, integers at the edges of every
\* head of _write_uint (2^64 is beyond the last), bytes and text, the empty ones
\* and those of UTF-8 sequences of one to four bytes included
Atoms ==
    <<PyNone, PyBool(TRUE), PyBool(FALSE),
      PyInt(FALSE, <<>>), PyInt(FALSE, <<1>>), PyInt(FALSE, <<23>>),
      PyInt(FALSE, <<24>>), PyInt(FALSE, <<255>>), PyInt(FALSE, <<1, 0>>),
      PyInt(FALSE, <<255, 255>>), PyInt(FALSE, <<1, 0, 0>>),
      PyInt(FALSE, <<255, 255, 255, 255>>), PyInt(FALSE, <<1, 0, 0, 0, 0>>),
      PyInt(FALSE, <<255, 255, 255, 255, 255, 255, 255, 255>>),
      PyInt(FALSE, <<1, 0, 0, 0, 0, 0, 0, 0, 0>>),
      PyInt(TRUE, <<1>>), PyInt(TRUE, <<24>>), PyInt(TRUE, <<25>>),
      PyInt(TRUE, <<1, 0>>), PyInt(TRUE, <<1, 1>>), PyInt(TRUE, <<3, 232>>),
      PyInt(TRUE, <<1, 0, 0, 0, 0>>), PyInt(TRUE, <<1, 0, 0, 0, 1>>),
      PyInt(TRUE, <<255, 255, 255, 255, 255, 255, 255, 255>>),
      PyInt(TRUE, <<1, 0, 0, 0, 0, 0, 0, 0, 0>>),
      PyInt(TRUE, <<1, 0, 0, 0, 0, 0, 0, 0, 1>>),
      PyBytes(<<>>), PyBytes(<<0, 1, 2, 104, 101>>), PyBytes([i \in 1..24 |-> i]),
      PyBytes([i \in 1..256 |-> i - 1]),
      PyStr(<<>>), PyStr(<<72, 105>>), PyStr(<<233>>), PyStr(<<8364>>),
      PyStr(<<72, 32, 127757>>), PyStr([i \in 1..24 |-> 97]),
      PyList([i \in 1..24 |-> PyNone]), PyTuple([i \in 1..24 |-> PyBool(TRUE)])>>

\* the items of the lists and tuples and the values of the dicts, and the keys
Elems ==
    <<PyNone, PyBool(TRUE), PyInt(FALSE, <<1, 0>>), PyInt(TRUE, <<1>>),
      PyBytes(<<97>>), PyStr(<<233>>)>>
Keys == <<PyStr(<<98>>), PyStr(<<97>>), PyBytes(<<97>>)>>

\* a value as it stands, or as the item of a list, of a tuple, or the value of a
\* key of a dict
Wrapped(w, x) ==
    CASE w = "list" -> PyList(<<x>>)
      [] w = "tuple" -> PyTuple(<<PyInt(FALSE, <<7>>), x>>)
      [] w = "dict" -> PyDict(<<<<PyStr(<<107>>), x>>>>)
      [] OTHER -> x

CbInit ==
    /\ cb_pc = "start"
    /\ \/ \E i \in 1..Len(Atoms) : cb_x = Atoms[i]
       \/ \E w \in {"plain", "list", "tuple", "dict"}, n \in 0..MaxItems :
            \/ \E kind \in {"list", "tuple"}, f \in [1..n -> 1..Len(Elems)] :
                  cb_x = Wrapped(w, [t |-> kind, v |-> [i \in 1..n |-> Elems[f[i]]]])
            \/ \E k \in [1..n -> 1..Len(Keys)], f \in [1..n -> 1..Len(Elems)] :
                  /\ \A i, j \in 1..n : i # j => k[i] # k[j]
                  /\ cb_x = Wrapped(w, PyDict([i \in 1..n |-> <<Keys[k[i]], Elems[f[i]]>>]))
    /\ cb_bytes = <<>>
    /\ cb_out = PyNone
    /\ cb_pos = 0

CbIdle ==
    /\ cb_pc = "idle"
    /\ cb_x = PyNone
    /\ cb_bytes = <<>>
    /\ cb_out = PyNone
    /\ cb_pos = 0

\* b = dumps(x)
CborDumps ==
    /\ cb_pc = "start"
    /\ IF DumpRaises(cb_x)
       THEN cb_pc' = "dump_raised" /\ cb_bytes' = cb_bytes
       ELSE cb_pc' = "dumped" /\ cb_bytes' = dumps(cb_x)
    /\ UNCHANGED <<cb_x, cb_out, cb_pos>>
    /\ CbFrame

\* y = loads(b)
CborLoads ==
    /\ cb_pc = "dumped"
    /\ \E r \in {loads(cb_bytes)} :
          IF r.ok
          THEN cb_pc' = "loaded" /\ cb_out' = r.val /\ cb_pos' = r.pos
          ELSE cb_pc' = "load_raised" /\ cb_out' = cb_out /\ cb_pos' = cb_pos
    /\ UNCHANGED <<cb_x, cb_bytes>>
    /\ CbFrame

---------------------------------------------------------------------------
(* The claim about the CBOR codec *)

\* the value is of the supported types without float: an int has at most 64 bits
\* of magnitude, the keys of a dict are str or bytes
RECURSIVE Supported(_)
Supported(x) ==
    CASE x.t \in {"none", "bool", "bytes", "str"} -> TRUE
      [] x.t = "int" -> Len(x.v.mag) <= 8
      [] x.t \in {"list", "tuple"} -> \A i \in 1..Len(x.v) : Supported(x.v[i])
      [] x.t = "dict" ->
            \A i \in 1..Len(x.v) :
                x.v[i][1].t \in {"str", "bytes"} /\ Supported(x.v[i][2])
      [] OTHER -> FALSE

\* a tuple is in the value
RECURSIVE HasTuple(_)
HasTuple(x) ==
    CASE x.t = "tuple" -> TRUE
      [] x.t = "list" -> \E i \in 1..Len(x.v) : HasTuple(x.v[i])
      [] x.t = "dict" -> \E i \in 1..Len(x.v) : HasTuple(x.v[i][2])
      [] OTHER -> FALSE

\* the value with every tuple replaced by the list of its items
RECURSIVE Listed(_)
Listed(x) ==
    CASE x.t \in {"list", "tuple"} -> PyList([i \in 1..Len(x.v) |-> Listed(x.v[i])])
      [] x.t = "dict" ->
            PyDict([i \in 1..Len(x.v) |-> <<x.v[i][1], Listed(x.v[i][2])>>])
      [] OTHER -> x

\* C9 as stated: for every value x of the supported types without float (None,
\* booleans, integers of 64 bits of magnitude, bytes, text, list/tuple, dict with
\* str/bytes keys, nested), loads(dumps(x)) == x, and the decoding consumes exactly
\* the bytes dumps produced.
C9_CborRoundTrip ==
    Supported(cb_x) =>
        /\ cb_pc \notin {"dump_raised", "load_raised"}
        /\ cb_pc = "loaded" => (PyEq(cb_out, cb_x) /\ cb_pos = Len(cb_bytes) + 1)

\* C9 amended: for every such value x, dumps and loads do not raise, the decoding
\* consumes exactly the bytes dumps produced, and loads(dumps(x)) equals x with
\* every tuple replaced by the list of its items; so loads(dumps(x)) == x for
\* every x that holds no tuple, and not for an x that holds one.
C9_CborRoundTripAmended ==
    Supported(cb_x) =>
        /\ cb_pc \notin {"dump_raised", "load_raised"}
        /\ cb_pc = "loaded" =>
              /\ PyEq(cb_out, Listed(cb_x))
              /\ cb_pos = Len(cb_bytes) + 1
              /\ PyEq(cb_out, cb_x) <=> ~HasTuple(cb_x)

\* a dict of two keys, given in the order the sort reverses, has come back
C9_Witness ==
    /\ cb_pc = "loaded"
    /\ cb_x.t = "dict"
    /\ Len(cb_x.v) = 2
    /\ cb_x.v[1][1] = PyStr(<<98>>)
    /\ cb_x.v[2][1] = PyStr(<<97>>)
    /\ cb_out.v[1][1] = PyStr(<<97>>)

---------------------------------------------------------------------------
(* Specifications *)

NextModInv == ModInvCall

InitModInv ==
    /\ MiInit /\ MrIdle /\ PgIdle /\ RsaIdle
    /\ CvIdle /\ EdIdle /\ CbIdle

SpecModInv == InitModInv /\ [][NextModInv]_vars

NextMR == MrSpecialCases \/ MrRound \/ MrAccept

InitMR ==
    /\ MiIdle /\ MrInit /\ PgIdle /\ RsaIdle
    /\ CvIdle /\ EdIdle /\ CbIdle

SpecMR == InitMR /\ [][NextMR]_vars

InitPrimeGen ==
    /\ MiIdle /\ MrIdle /\ PgInit /\ RsaIdle
    /\ CvIdle /\ EdIdle /\ CbIdle

SpecPrimeGen == InitPrimeGen /\ [][NextPrimeGen]_vars

InitRSA ==
    /\ MiIdle /\ MrIdle /\ PgIdle /\ RsaInit
    /\ CvIdle /\ EdIdle /\ CbIdle

SpecRSA == InitRSA /\ [][NextRSA]_vars

NextCurve == CvCompress \/ CvDecompress \/ CvScalarMult

InitCurve ==
    /\ MiIdle /\ MrIdle /\ PgIdle /\ RsaIdle
    /\ CvInit /\ EdIdle /\ CbIdle

SpecCurve == InitCurve /\ [][NextCurve]_vars

NextEd == EdGenerateKeys \/ EdSign \/ EdVerify

InitEd ==
    /\ MiIdle /\ MrIdle /\ PgIdle /\ RsaIdle
    /\ CvIdle /\ EdInit /\ CbIdle

SpecEd == InitEd /\ [][NextEd]_vars

NextEdVerify == EdVerify

InitEdVerify ==
    /\ MiIdle /\ MrIdle /\ PgIdle /\ RsaIdle
    /\ CvIdle /\ EdVerifyInit /\ CbIdle

SpecEdVerify == InitEdVerify /\ [][NextEdVerify]_vars

NextCbor == CborDumps \/ CborLoads

InitCbor ==
    /\ MiIdle /\ MrIdle /\ PgIdle /\ RsaIdle
    /\ CvIdle /\ EdIdle /\ CbInit

SpecCbor == InitCbor /\ [][NextCbor]_vars

=============================================================================
